---- MODULE Spec2Model ----
(***************************************************************************)
(* Model of the accessible stepper: the React hook useAccessibleStepper    *)
(* (src/hoc/react.tsx) and the AccessibleStepper custom element            *)
(* (src/main.js).  The two hold no state in common, so a behaviour is a    *)
(* session of one of them; `sys` says which.                               *)
(*                                                                         *)
(* JavaScript values are encoded as follows.                               *)
(*   - an optional value (undefined / null / absent) is the empty          *)
(*     sequence <<>>, a present value v is <<v>>;                          *)
(*   - an object used as a map is a function whose DOMAIN is its set of    *)
(*     own keys;                                                           *)
(*   - the results a validator can produce are the strings VTrue, VFalse   *)
(*     (the booleans true and false) and Msg (a message string); the null  *)
(*     stored in `errors` is VNull.                                        *)
(***************************************************************************)
EXTENDS Integers, Sequences, FiniteSets, TLC

VARIABLES
    sys,           \* "hook" or "element": which component this session runs
    impl,          \* which file the hook is taken from: "tsx" (react.tsx) or
                   \* "jsx" (react.jsx)
    \* ---- hook: options and React state (react.tsx 83-87)
    totalSteps,    \* first argument of useAccessibleStepper
    initialStep,   \* options.initialStep after destructuring (default 0)
    validator,     \* options.validateStep: "none" when not given, else how
                   \* it rejects: "message" (a string) or "boolean" (false)
    currentStep,   \* useState(initialStep)
    stepData,      \* useState({})
    errors,        \* useState({})
    view,          \* the object returned by the last render; the callbacks
                   \* created by that render read their values from it
    pending,       \* validator promises awaited by next() / complete()
    mounted,       \* the component that called the hook is mounted
    ev,            \* what the last hook step did (call, result, callbacks)
    \* ---- element (main.js)
    nSteps,        \* number of [data-step] children
    current_,      \* this._current
    attrCurrent,   \* the `current` content attribute: <<>> or <<string>>
    attrMode,      \* the `mode` content attribute
    attrAllowNavigation, \* the `allow-navigation` content attribute
    mode_,         \* this._mode
    allowNavigation_, \* this._allowNavigation
    connected,     \* this.isConnected
    layout,        \* what render() last put in the shadow root
    dom,           \* the rendered state (see NoDom)
    paint,         \* the live region, the focus and the callbacks waiting
                   \* for the next animation frame (see NoPaint)
    propCurrent,   \* the `current` prop of the React wrapper that owns the
                   \* element, None when the element is used without it
    el             \* what the last element step did (call, events dispatched)

hookVars == <<totalSteps, initialStep, validator, currentStep, stepData,
              errors, view, pending, mounted, ev>>
elVars == <<nSteps, current_, attrCurrent, attrMode, attrAllowNavigation,
            mode_, allowNavigation_, connected, layout, dom, paint, propCurrent, el>>
vars == <<sys, impl, hookVars, elVars>>

----------------------------------------------------------------------------
(* Bounds of the model *)

MaxSteps == 2          \* steps of a hook session
MaxElSteps == 2        \* [data-step] children of an element
MaxPending == 2        \* validations outstanding at once
MaxProgressSteps == 9  \* steps of a session of ProgressSpec
MaxFrames == 4         \* callbacks waiting for one animation frame

\* integer arguments tried for step indices: below, inside and above the range
StepArgs == -1 .. MaxSteps
\* values tried for options.initialStep
InitialArgs == {-1, 1, MaxSteps}
\* integer arguments tried for the element's step indices
ElStepArgs == -1 .. MaxElSteps

----------------------------------------------------------------------------
(* JavaScript values *)

VTrue == "true"
VFalse == "false"
VNull == "null"
Msg == "Email required"
\* what a validator of each kind returns or resolves to
ValidatorResults(kind) ==
    IF kind = "message" THEN {VTrue, Msg}
    ELSE IF kind = "boolean" THEN {VTrue, VFalse}
    ELSE {}

None == <<>>
Some(v) == <<v>>

EmptyMap == [k \in {} |-> 0]

\* (variant: the second object replaces the first)
Spread_replace(f, g) == g

\* { ...f, ...g }
Spread(f, g) ==
    [k \in (DOMAIN f) \cup (DOMAIN g) |-> IF k \in DOMAIN g THEN g[k] ELSE f[k]]

\* { ...f, [k]: v }
Put(f, k, v) == [x \in (DOMAIN f) \cup {k} |-> IF x = k THEN v ELSE f[x]]

\* (variant: the entry is not read)
GetOrEmpty_fresh(f, k) == EmptyMap

\* f[k] ?? {}
GetOrEmpty(f, k) == IF k \in DOMAIN f THEN f[k] ELSE EmptyMap

\* f[k], undefined when k is no key of f
Lookup(f, k) == IF k \in DOMAIN f THEN Some(f[k]) ELSE None

\* the patches updateStepData is called with
Patches == { [k \in {"a"} |-> 1], [k \in {"b"} |-> 2], [k \in {"a"} |-> 2] }

Max(a, b) == IF a >= b THEN a ELSE b
Min(a, b) == IF a <= b THEN a ELSE b

\* Math.round(n / d * 100) for d > 0: the nearest integer, halves upward.
\* Math.round(x) is floor(x + 0.5); on integers floor((100n)/d + 1/2) is
\* (200n + d) \div 2d.  For every n, d within the bounds of this model the
\* double-precision result of the source expression is this integer.
RoundPercent(n, d) == (200 * n + d) \div (2 * d)

----------------------------------------------------------------------------
(* The hook: useAccessibleStepper(totalSteps, options)  (react.tsx 79-175) *)

\* (variant: Math.floor in place of Math.round)
HookProgress_floor(total, cur) ==
    IF total > 1 THEN (100 * cur) \div (total - 1) ELSE 100

\* const progress = totalSteps > 1 ? Math.round(...) : 100
HookProgress(total, cur) ==
    IF total > 1 THEN RoundPercent(cur, total - 1) ELSE 100

\* (variant: !isLast)
CanGoNext_notLast(cur, total) == cur # total - 1

\* (variant: <= in place of <)
CanGoNext_inclusive(cur, total) == cur <= total - 1

\* const canGoNext = currentStep < totalSteps - 1
CanGoNext(cur, total) == cur < total - 1

\* (variant: > 1 in place of > 0)
CanGoPrev_strict(cur) == cur > 1

\* const canGoPrev = currentStep > 0
CanGoPrev(cur) == cur > 0

\* One render of the hook: the derived values of lines 89-93 and the object
\* returned at lines 157-174, computed from the React state of that render.
HookRender(cur, data, errs) ==
    [ currentStep |-> cur,
      progress    |-> HookProgress(totalSteps, cur),
      isFirst     |-> (cur = 0),
      isLast      |-> (cur = totalSteps - 1),
      canGoNext   |-> CanGoNext(cur, totalSteps),
      canGoPrev   |-> CanGoPrev(cur),
      stepData    |-> data,
      errors      |-> errs ]

\* The record of one hook step.
\*   op, arg  the operation called and its integer arguments
\*   patch    the data argument of updateStepData
\*   ret      "true" / "false": the value returned (or the promise resolved
\*            with); "pending": the promise is not settled yet; "void"
\*   notes    the onStepChange(current, previous) calls made, in order
\*   vcalls   the validateStep(step, data) calls made, in order
\*   done     the onComplete(stepData) calls made, in order
\*   result   the value the step obtained: what the awaited validator
\*            resolved to, when the step is the continuation of an await;
\*            the context, when the step is a useStepper() call
Ev(op, arg, patch, ret, notes, vcalls, done) ==
    [ op |-> op, arg |-> arg, patch |-> patch, ret |-> ret,
      notes |-> notes, vcalls |-> vcalls, done |-> done, result |-> None ]

Quiet(op, arg, ret) == Ev(op, arg, EmptyMap, ret, <<>>, <<>>, <<>>)

\* useState initial values and the first render, for the given choices of
\* the implementation, totalSteps, options.validateStep and
\* options.initialStep
HookInitOf(impls, totals, validators, initials) ==
    /\ sys = "hook"
    /\ impl \in impls
    /\ totalSteps \in totals
    /\ validator \in validators
    /\ \E opt \in initials :
          /\ initialStep = (IF opt = None THEN 0 ELSE opt[1])
          /\ ev = Quiet("mount", opt, "void")
    /\ currentStep = initialStep
    /\ stepData = EmptyMap
    /\ errors = EmptyMap
    /\ view = HookRender(currentStep, stepData, errors)
    /\ pending = <<>>
    /\ mounted = TRUE
    \* no element takes part in a hook session
    /\ nSteps = 0
    /\ current_ = 0
    /\ attrCurrent = None
    /\ attrMode = None
    /\ attrAllowNavigation = None
    /\ mode_ = "steps"
    /\ allowNavigation_ = FALSE
    /\ connected = FALSE
    /\ layout = "none"
    /\ dom = [ shown |-> None, markers |-> None, interactive |-> {},
               bar |-> None, controls |-> None ]
    /\ paint = [ announcer |-> None, due |-> <<>> ]
    /\ propCurrent = None
    /\ el = [op |-> "none", arg |-> <<>>, events |-> <<>>, seen |-> <<>>,
             log |-> <<>>]

\* the hook of react.tsx
HookInitWith(totals, validators, initials) ==
    HookInitOf({"tsx"}, totals, validators, initials)

HookInit ==
    HookInitWith(0 .. MaxSteps, {"none", "message", "boolean"},
                 {None} \cup { Some(i) : i \in InitialArgs })

\* React renders again after a state update; the callbacks of the new render
\* close over the new values.
Render ==
    /\ sys = "hook"
    /\ view # HookRender(currentStep, stepData, errors)
    /\ view' = HookRender(currentStep, stepData, errors)
    /\ ev' = Quiet("render", <<>>, "void")
    /\ UNCHANGED <<currentStep, stepData, errors, pending>>

\* updateStepData(step, data)
updateStepData(step, data) ==
    /\ sys = "hook"
    /\ stepData' = Put(stepData, step, Spread(GetOrEmpty(stepData, step), data))
    /\ ev' = Ev("updateStepData", <<step>>, data, "void", <<>>, <<>>, <<>>)
    /\ UNCHANGED <<currentStep, errors, pending>>

\* (variant: the step's error is left in place)
Advance_keepErrors(op, c, result) ==
    /\ errors' = errors
    /\ currentStep' = c + 1
    /\ ev' = [ Ev(op, <<>>, EmptyMap, "true", << <<c + 1, c>> >>, <<>>, <<>>)
                EXCEPT !.result = result ]

\* Lines 113-117 of next(), run with the currentStep `c` of the closure;
\* `result` is what the validator resolved to, None without a validator.
Advance(op, c, result) ==
    /\ errors' = Put(errors, c, VNull)
    /\ currentStep' = c + 1
    /\ ev' = [ Ev(op, <<>>, EmptyMap, "true", << <<c + 1, c>> >>, <<>>, <<>>)
                EXCEPT !.result = result ]

\* Lines 107-110 and 142-145: a validation result other than true.
Reject(op, c, result) ==
    /\ errors' = Put(errors, c, result)
    /\ ev' = [ Quiet(op, <<>>, "false") EXCEPT !.result = Some(result) ]
    /\ UNCHANGED currentStep

\* (variant: any truthy result accepts)
Accepts_truthy(result) == result # VFalse

\* validationResult !== true is a rejection
Accepts(result) == result = VTrue

\* The validator call of lines 106 and 141 as seen by the validator.
ValidatorCall(v) == [ step |-> v.currentStep, data |-> Lookup(v.stepData, v.currentStep) ]

\* next(), up to its first await (or to its end when there is no validator)
next ==
    /\ sys = "hook"
    /\ IF ~view.canGoNext
         THEN /\ ev' = Quiet("next", <<>>, "false")
              /\ UNCHANGED <<currentStep, errors, pending>>
         ELSE IF validator # "none"
         THEN /\ Len(pending) < MaxPending
              /\ pending' = Append(pending,
                     [op |-> "next", step |-> view.currentStep, data |-> EmptyMap])
              /\ ev' = Ev("next", <<>>, EmptyMap, "pending", <<>>,
                          <<ValidatorCall(view)>>, <<>>)
              /\ UNCHANGED <<currentStep, errors>>
         ELSE /\ Advance("next", view.currentStep, None)
              /\ UNCHANGED pending
    /\ UNCHANGED stepData

RemoveAt(s, i) == [ j \in 1 .. (Len(s) - 1) |-> IF j < i THEN s[j] ELSE s[j + 1] ]

\* next() after its await: the validator's promise settles with `result`
nextSettle(i, result) ==
    /\ sys = "hook"
    /\ i \in DOMAIN pending
    /\ pending[i].op = "next"
    /\ result \in ValidatorResults(validator)
    /\ IF ~Accepts(result)
         THEN Reject("next.settle", pending[i].step, result)
         ELSE Advance("next.settle", pending[i].step, Some(result))
    /\ pending' = RemoveAt(pending, i)
    /\ UNCHANGED stepData

\* previous()
previous ==
    /\ sys = "hook"
    /\ IF ~view.canGoPrev
         THEN /\ ev' = Quiet("previous", <<>>, "false")
              /\ UNCHANGED currentStep
         ELSE /\ currentStep' = view.currentStep - 1
              /\ ev' = Ev("previous", <<>>, EmptyMap, "true",
                          << <<view.currentStep - 1, view.currentStep>> >>, <<>>, <<>>)
    /\ UNCHANGED <<stepData, errors, pending>>

\* (variant: > in place of >=)
GoToRejects_offByOne(step, total) == step < 0 \/ step > total

\* the guard of goTo, line 130
GoToRejects(step, total) == step < 0 \/ step >= total

\* (variant: no notification when the index does not change)
GoToNotes_onlyOnChange(step, oldStep) ==
    IF step = oldStep THEN <<>> ELSE << <<step, oldStep>> >>

\* onStepChange?.(step, oldStep), line 133
GoToNotes(step, oldStep) == << <<step, oldStep>> >>

\* goTo(step)
goTo(step) ==
    /\ sys = "hook"
    /\ IF GoToRejects(step, totalSteps)
         THEN /\ ev' = Quiet("goTo", <<step>>, "false")
              /\ UNCHANGED currentStep
         ELSE /\ currentStep' = step
              /\ ev' = Ev("goTo", <<step>>, EmptyMap, "true",
                          GoToNotes(step, view.currentStep), <<>>, <<>>)
    /\ UNCHANGED <<stepData, errors, pending>>

\* complete(), up to its first await (or through onComplete when there is
\* no validator)
complete ==
    /\ sys = "hook"
    /\ IF validator # "none"
         THEN /\ Len(pending) < MaxPending
              /\ pending' = Append(pending,
                     [op |-> "complete", step |-> view.currentStep,
                      data |-> view.stepData])
              /\ ev' = Ev("complete", <<>>, EmptyMap, "pending", <<>>,
                          <<ValidatorCall(view)>>, <<>>)
         ELSE /\ ev' = Ev("complete", <<>>, EmptyMap, "true", <<>>, <<>>,
                          <<view.stepData>>)
              /\ UNCHANGED pending
    /\ UNCHANGED <<currentStep, stepData, errors>>

\* complete() after its await
completeSettle(i, result) ==
    /\ sys = "hook"
    /\ i \in DOMAIN pending
    /\ pending[i].op = "complete"
    /\ result \in ValidatorResults(validator)
    /\ IF ~Accepts(result)
         THEN Reject("complete.settle", pending[i].step, result)
         ELSE /\ ev' = [ Ev("complete.settle", <<>>, EmptyMap, "true", <<>>, <<>>,
                             <<pending[i].data>>)
                         EXCEPT !.result = Some(result) ]
              /\ UNCHANGED <<currentStep, errors>>
    /\ pending' = RemoveAt(pending, i)
    /\ UNCHANGED stepData

\* (variant: reset() that keeps the errors)
reset_keepErrors ==
    /\ sys = "hook"
    /\ currentStep' = initialStep
    /\ stepData' = EmptyMap
    /\ ev' = Quiet("reset", <<>>, "void")
    /\ UNCHANGED <<errors, pending>>

\* reset()
reset ==
    /\ sys = "hook"
    /\ currentStep' = initialStep
    /\ stepData' = EmptyMap
    /\ errors' = EmptyMap
    /\ ev' = Quiet("reset", <<>>, "void")
    /\ UNCHANGED pending

\* the state setter returned by useState, passed out as setCurrentStep
SetStateValue(step, total) == step

setCurrentStep(step) ==
    /\ sys = "hook"
    /\ currentStep' = SetStateValue(step, totalSteps)
    /\ ev' = Quiet("setCurrentStep", <<step>>, "void")
    /\ UNCHANGED <<stepData, errors, pending>>

HookFrame == UNCHANGED <<sys, impl, totalSteps, initialStep, validator, elVars>>

\* The steps and patches the sessions that write step data use
DataSteps == 0 .. (MaxSteps - 1)
DataPatches == Patches \cup { EmptyMap }

\* The step and the patch the sessions of SeqSpec write data for
SeqDataSteps == { 0 }
SeqPatches == { [a |-> 1] }

\* A session in which the operations are called one at a time: React has
\* rendered again (recreating the callbacks) before the next call or
\* settlement, and no call but reset() is made while a validation is
\* outstanding.
Rendered(A) ==
    /\ mounted
    /\ A
    /\ view' = HookRender(currentStep', stepData', errors')
    /\ UNCHANGED mounted
    /\ HookFrame

SeqCall(A) == pending = <<>> /\ Rendered(A)

SeqNextCall == SeqCall(next)
SeqNextSettle == \E i \in 1 .. MaxPending, r \in {VTrue, VFalse, Msg} : Rendered(nextSettle(i, r))
SeqPrevious == SeqCall(previous)
SeqGoTo == \E i \in StepArgs : SeqCall(goTo(i))
SeqComplete == SeqCall(complete)
SeqCompleteSettle == \E i \in 1 .. MaxPending, r \in {VTrue, VFalse, Msg} : Rendered(completeSettle(i, r))
SeqReset == Rendered(reset)
SeqUpdateStepData == \E k \in SeqDataSteps, p \in SeqPatches : SeqCall(updateStepData(k, p))
SeqSetCurrentStep == \E i \in StepArgs : SeqCall(setCurrentStep(i))

SeqNext ==
    \/ SeqNextCall
    \/ SeqNextSettle
    \/ SeqPrevious
    \/ SeqGoTo
    \/ SeqComplete
    \/ SeqCompleteSettle
    \/ SeqReset
    \/ SeqUpdateStepData
    \/ SeqSetCurrentStep

SeqSpec == HookInit /\ [][SeqNext]_vars

----------------------------------------------------------------------------
(* Sessions in which calls and settlements interleave freely: a call reads  *)
(* the values of the last render, which may be older than the React state   *)
(* (two calls in one event handler, a call while a validation is            *)
(* outstanding), React renders again at some later point, and the component *)
(* may be unmounted while validations are outstanding.                      *)

\* A call made through the object of the last render, before React has
\* rendered again
Stale(A) ==
    /\ mounted
    /\ A
    /\ UNCHANGED <<view, mounted>>
    /\ HookFrame

\* the component is unmounted
unmount ==
    /\ sys = "hook"
    /\ mounted
    /\ mounted' = FALSE
    /\ ev' = Quiet("unmount", <<>>, "void")
    /\ UNCHANGED <<currentStep, stepData, errors, view, pending>>
    /\ HookFrame

\* next() or complete() after its await when the component has been
\* unmounted: the continuation runs as ever (lines 107-117, 142-148), React
\* drops the state updates of an unmounted component, the callbacks of the
\* options are called
settleUnmounted(i, result) ==
    /\ sys = "hook"
    /\ ~mounted
    /\ i \in DOMAIN pending
    /\ result \in ValidatorResults(validator)
    /\ LET c == pending[i].step
           op == IF pending[i].op = "next" THEN "next.settle" ELSE "complete.settle"
       IN  ev' = [ (IF ~Accepts(result)
                      THEN Quiet(op, <<>>, "false")
                    ELSE IF pending[i].op = "next"
                      THEN Ev(op, <<>>, EmptyMap, "true", << <<c + 1, c>> >>, <<>>, <<>>)
                      ELSE Ev(op, <<>>, EmptyMap, "true", <<>>, <<>>, <<pending[i].data>>))
                   EXCEPT !.result = Some(result) ]
    /\ pending' = RemoveAt(pending, i)
    /\ UNCHANGED <<currentStep, stepData, errors, view, mounted>>
    /\ HookFrame

\* Navigation, resets and data written from render snapshots of any age,
\* with several validations of next() outstanding at once
AsyncStep ==
    \/ Stale(next)
    \/ \E i \in 1 .. MaxPending, r \in {VTrue, Msg} : Stale(nextSettle(i, r))
    \/ Stale(previous)
    \/ \E i \in DataSteps : Stale(goTo(i))
    \/ Stale(reset)
    \/ \E k \in SeqDataSteps, p \in SeqPatches : Stale(updateStepData(k, p))
    \/ mounted /\ Render /\ UNCHANGED mounted /\ HookFrame

AsyncSpec ==
    /\ HookInitWith({MaxSteps}, {"none", "message"}, {None, Some(1)})
    /\ [][AsyncStep]_vars

\* The component is unmounted while validations of next() and complete() are
\* outstanding, and they settle afterwards
TeardownStep ==
    \/ SeqCall(next)
    \/ SeqCall(complete)
    \/ \E i \in StepArgs : SeqCall(goTo(i))
    \/ \E r \in {VTrue, VFalse, Msg} : Rendered(nextSettle(1, r))
    \/ \E r \in {VTrue, VFalse, Msg} : Rendered(completeSettle(1, r))
    \/ unmount
    \/ \E r \in {VTrue, VFalse, Msg} : settleUnmounted(1, r)

TeardownSpec ==
    /\ HookInitWith(0 .. MaxSteps, {"none", "message", "boolean"}, {None})
    /\ [][TeardownStep]_vars

----------------------------------------------------------------------------
(* The two files of the hook side by side: react.jsx 24-118 has the text of *)
(* react.tsx 79-175 without the types, except in complete(), which calls    *)
(* onComplete without awaiting it (react.jsx 90, react.tsx 147).            *)

\* What options.onComplete does when called: it is not given ("absent"), it
\* returns a plain value ("sync"), it throws ("throws"), or it returns a
\* promise that settles later ("resolves", "rejects")
OnCompleteOutcomes == {"absent", "sync", "throws", "resolves", "rejects"}

\* complete() of implementation im without a validator, when onComplete
\* behaves as `outcome`: react.tsx 147-148 awaits it, react.jsx 90-91 calls
\* it and returns true
completeFinish(im, outcome) ==
    /\ sys = "hook"
    /\ validator = "none"
    /\ LET settlesLater == outcome \in {"resolves", "rejects"}
           awaited == im = "tsx" /\ settlesLater
           ret == IF outcome = "throws" THEN "throw"
                  ELSE IF awaited THEN "pending"
                  ELSE "true"
           called == IF outcome = "absent" THEN <<>> ELSE <<view.stepData>>
       IN  /\ awaited => Len(pending) < MaxPending
           /\ ev' = [ Ev("complete", <<>>, EmptyMap, ret, <<>>, <<>>, called)
                      EXCEPT !.result = Some(outcome) ]
           /\ pending' = IF awaited
                           THEN Append(pending, [op |-> outcome,
                                                 step |-> view.currentStep,
                                                 data |-> EmptyMap])
                           ELSE pending
    /\ UNCHANGED <<currentStep, stepData, errors>>

\* the promise of onComplete awaited by complete() settles: complete()
\* resolves to true or rejects
onCompleteSettle(i) ==
    /\ sys = "hook"
    /\ i \in DOMAIN pending
    /\ pending[i].op \in {"resolves", "rejects"}
    /\ ev' = [ Quiet("complete.settle", <<>>,
                     IF pending[i].op = "resolves" THEN "true" ELSE "throw")
               EXCEPT !.result = Some(pending[i].op) ]
    /\ pending' = RemoveAt(pending, i)
    /\ UNCHANGED <<currentStep, stepData, errors>>

EquivStep ==
    \/ SeqCall(next)
    \/ SeqCall(previous)
    \/ \E i \in StepArgs : SeqCall(goTo(i))
    \/ \E k \in SeqDataSteps, p \in SeqPatches : SeqCall(updateStepData(k, p))
    \/ SeqCall(reset)
    \/ \E o \in OnCompleteOutcomes : Rendered(completeFinish(impl, o))
    \/ \E i \in 1 .. MaxPending : Rendered(onCompleteSettle(i))

EquivSpec ==
    /\ HookInitOf({"tsx", "jsx"}, 0 .. MaxSteps, {"none"}, {None})
    /\ [][EquivStep]_vars

----------------------------------------------------------------------------
(* The shared context: StepperProvider and useStepper  (react.tsx 177-202)  *)

\* (variant: no check of the context)
ContextMissing_never(context) == FALSE

\* if (!context): the context is null outside of a StepperProvider
ContextMissing(context) == context = None

\* useStepper() called by a component that reads `context` from
\* StepperContext: null by default, the provider's stepper inside one
useStepper(context) ==
    /\ sys = "hook"
    /\ IF ContextMissing(context)
         THEN ev' = Ev("useStepper", context, EmptyMap, "throw", <<>>, <<>>, <<>>)
         ELSE ev' = [ Ev("useStepper", context, EmptyMap, "context", <<>>, <<>>, <<>>)
                      EXCEPT !.result = context ]
    /\ UNCHANGED <<currentStep, stepData, errors, pending>>

\* Sessions of a StepperProvider: the hook it owns is navigated and written
\* to, and components inside and outside of the provider call useStepper().
\* useStepper() inside <StepperContext.Provider value={stepper}> (the object
\* of the last render) and outside any provider, between the calls a
\* component makes on the shared object
ContextStep ==
    \/ SeqCall(useStepper(Some(view)))
    \/ SeqCall(useStepper(None))
    \/ SeqCall(next)
    \/ SeqCall(previous)
    \/ \E i \in StepArgs : SeqCall(goTo(i))
    \/ \E k \in DataSteps, q \in Patches : SeqCall(updateStepData(k, q))

ContextSpec == HookInitWith(0 .. MaxSteps, {"none"}, {None}) /\ [][ContextStep]_vars

----------------------------------------------------------------------------
(* Sessions of the hook that write step data: every step of the session    *)
(* takes every patch, between navigation, rejected validations and resets. *)

DataNext ==
    \/ \E k \in DataSteps, p \in DataPatches : SeqCall(updateStepData(k, p))
    \/ SeqCall(next)
    \/ \E r \in {VTrue, Msg} : Rendered(nextSettle(1, r))
    \/ SeqCall(previous)
    \/ \E i \in DataSteps : SeqCall(goTo(i))
    \/ SeqCall(complete)
    \/ \E r \in {VTrue, Msg} : Rendered(completeSettle(1, r))
    \/ \E i \in DataSteps : SeqCall(setCurrentStep(i))
    \/ SeqCall(reset)

DataSpec == HookInitWith({MaxSteps}, {"message"}, {None}) /\ [][DataNext]_vars

----------------------------------------------------------------------------
(* The element: class AccessibleStepper  (main.js 223-609) *)

\* String(i) for the integers the model uses
IntStr(i) ==
    CASE i = -1 -> "-1" [] i = 0 -> "0" [] i = 1 -> "1" [] i = 2 -> "2"
      [] i = 3 -> "3" [] i = 4 -> "4" [] i = 5 -> "5" [] i = 6 -> "6"
      [] i = 7 -> "7" [] i = 8 -> "8" [] i = 9 -> "9" [] i = 10 -> "10"
      [] i = 11 -> "11" [] i = 12 -> "12"

\* parseInt(s, 10): the integer a string starts with, None for NaN
ParseInt(s) ==
    CASE s = "-1" -> Some(-1) [] s = "0" -> Some(0) [] s = "1" -> Some(1)
      [] s = "2" -> Some(2) [] s = "3" -> Some(3) [] s = "4" -> Some(4)
      [] s = "5" -> Some(5) [] s = "6" -> Some(6) [] s = "7" -> Some(7)
      [] s = "8" -> Some(8) [] s = "9" -> Some(9) [] s = "10" -> Some(10)
      [] s = "11" -> Some(11) [] s = "12" -> Some(12)
      [] s = "1px" -> Some(1)
      [] OTHER -> None

\* parseInt(newValue, 10) || 0, newValue a string or null
ParseCurrent(v) ==
    IF v = None THEN 0
    ELSE IF ParseInt(v[1]) = None THEN 0
    ELSE ParseInt(v[1])[1]

\* values the `current` attribute is set to (None: the attribute is removed)
AttrCurrentValues ==
    {None} \cup { Some(IntStr(i)) : i \in ElStepArgs } \cup { Some("1px") }
AttrModeValues == { None, Some("progress") }
AttrAllowNavigationValues == { None, Some(""), Some("false") }

\* get progress
ElProgress(total, cur) ==
    IF total > 1 THEN RoundPercent(cur, total - 1) ELSE 100

\* The [data-step] children: those at even positions carry a data-label.
\* this.steps[index]?.dataset.label || `Step ${index + 1}`
LabelAt(index) ==
    IF index \in 0 .. (nSteps - 1) /\ index % 2 = 0
      THEN [given |-> TRUE, n |-> index]
      ELSE [given |-> FALSE, n |-> index + 1]

\* the stepchange event _showStep(index, previousIndex) dispatches while
\* this._current is cur
StepChange(index, previousIndex, cur) ==
    [ type |-> "stepchange", current |-> index, previous |-> previousIndex,
      total |-> nSteps, label |-> LabelAt(index),
      progress |-> ElProgress(nSteps, cur) ]

\* the complete event of _handleClick
CompleteEvent(cur) == [ type |-> "complete", current |-> cur ]

\* The rendered state of the element (the variable dom):
\*   shown        the index the [data-step] children were last shown for:
\*                child i is hidden iff i differs from it; None while no
\*                child has been hidden yet
\*   markers      None: the shadow root holds no step list; Some(None): the
\*                list items carry no status; Some(Some(i)): they carry the
\*                statuses, classes and aria-current of index i
\*   interactive  the markers that carry data-interactive
\*   bar          None, or the progress bar's aria-valuenow (now) and the
\*                index its texts were written for
\*   controls     None, or the previous button's disabled flag and the next
\*                button's label
NoDom ==
    [ shown |-> None, markers |-> None, interactive |-> {}, bar |-> None,
      controls |-> None ]

\* prevBtn.disabled and nextBtn.textContent for an index
Controls(index) ==
    [ prevDisabled |-> (index = 0),
      nextLabel |-> IF index = nSteps - 1 THEN "Complete" ELSE "Next" ]

\* render(): the shadow root is rebuilt from _mode, _current, _allowNavigation
render(d, mode, cur, allow) ==
    [ d EXCEPT
        !.markers = IF mode = "progress" THEN None ELSE Some(None),
        !.interactive = IF mode # "progress" /\ allow
                          THEN { i \in 0 .. (nSteps - 1) : i < cur }
                          ELSE {},
        !.bar = IF mode = "progress"
                  THEN Some([ now |-> ElProgress(nSteps, cur), index |-> cur ])
                  ELSE None,
        !.controls = Some(Controls(cur)) ]

\* _showStep(index, ...), lines 441-491: what it writes to the rendered state
\* while this._mode is mode and this._current is cur
showStep(d, index, mode, cur) ==
    [ d EXCEPT
        !.shown = Some(index),
        !.markers = IF d.markers = None THEN None ELSE Some(Some(index)),
        !.bar = IF mode = "progress" /\ d.bar # None
                  THEN Some([ now |-> ElProgress(nSteps, cur), index |-> index ])
                  ELSE d.bar,
        !.controls = IF d.controls = None THEN None ELSE Some(Controls(index)) ]

\* li.classList 'completed' of the list item of step i (line 449)
MarkerCompleted(d, i) ==
    d.markers # None /\ d.markers[1] # None /\ i < d.markers[1][1]

\* li.classList 'current' and the marker's aria-current="step" of step i
\* (lines 450 and 460-464)
MarkerCurrent(d, i) ==
    d.markers # None /\ d.markers[1] # None /\ i = d.markers[1][1]

\* The effects of a handler so far: the rendered state, the events it has
\* dispatched, the rendered state each event's listeners saw, and the log of
\* what it did to the live region, the animation-frame queue and the
\* listeners, in order:
\*   "wipe"      this.shadowRoot.innerHTML = '' (render)
\*   "create"    this._announcer = this._createAnnouncer()
\*   "announce"  this._announce(message of step `index`)
\*   "focus"     requestAnimationFrame(focus of step `index`)
\*   "dispatch"  this.dispatchEvent(...)
NoFx(d) == [ dom |-> d, events |-> <<>>, seen |-> <<>>, log |-> <<>> ]

Did(fx, k, index) == [ fx EXCEPT !.log = Append(fx.log, [k |-> k, index |-> index]) ]

\* dispatchEvent(e)
Dispatch(fx, e) ==
    Did([ fx EXCEPT !.events = Append(fx.events, e), !.seen = Append(fx.seen, fx.dom) ],
        "dispatch", 0)

\* if (previousIndex !== undefined), line 498
DefersFocus(previousIndex) == previousIndex # None

\* _showStep(index, previousIndex) while this._current is cur
ShowStep(fx, index, previousIndex, cur) ==
    LET shown == [ fx EXCEPT !.dom = showStep(fx.dom, index, mode_, cur) ]
        announced == Did(shown, "announce", index)
        deferred == IF DefersFocus(previousIndex)
                      THEN Did(announced, "focus", index)
                      ELSE announced
    IN  Dispatch(deferred, StepChange(index, previousIndex, cur))

\* render() as part of a handler: the shadow root is emptied and rebuilt
Render_(fx, mode, cur, allow) ==
    Did([ fx EXCEPT !.dom = render(fx.dom, mode, cur, allow) ], "wipe", 0)

\* the record of one element step: the call, the events it dispatched, the
\* rendered state at each dispatch and the log
ElEv(op, arg, fx) ==
    [ op |-> op, arg |-> arg, events |-> fx.events, seen |-> fx.seen,
      log |-> fx.log ]

\* The live region and the animation-frame queue (the variable paint):
\*   announcer  this._announcer: None (null), or whether the node is in the
\*              shadow root (attached) and its textContent (text: None for
\*              '', else the index the message was made for)
\*   due        the callbacks passed to requestAnimationFrame that have not
\*              run yet, in order: "announce" writes the message of step
\*              `index` to the live region, "focus" moves the focus to step
\*              `index` (the focus is read by nothing and is not kept)
\* While a handler runs, two more fields are kept with them:
\*   scheduled  the number of callbacks the handler has passed to
\*              requestAnimationFrame
\*   seen       the announcer and the queue at each of its dispatches
NoPaint == [ announcer |-> None, due |-> <<>> ]

\* `Step ${index + 1} of ${this.totalSteps}: ${label}`, lines 495-496
AnnounceText(index) == [ n |-> index + 1, total |-> nSteps, label |-> LabelAt(index) ]

\* _announce(message), lines 432-438
Announce(q, index) ==
    IF q.announcer = None THEN q
    ELSE [ q EXCEPT
             !.announcer = Some([ q.announcer[1] EXCEPT !.text = None ]),
             !.due = Append(q.due, [k |-> "announce", index |-> index]),
             !.scheduled = q.scheduled + 1 ]

\* one entry of a handler's log applied to the paint state
ApplyEntry(q, entry) ==
    CASE entry.k = "wipe" ->
           IF q.announcer = None THEN q
           ELSE [ q EXCEPT !.announcer = Some([ q.announcer[1] EXCEPT !.attached = FALSE ]) ]
      [] entry.k = "create" ->
           [ q EXCEPT !.announcer = Some([ attached |-> TRUE, text |-> None ]) ]
      [] entry.k = "announce" -> Announce(q, entry.index)
      [] entry.k = "focus" ->
           [ q EXCEPT !.due = Append(q.due, [k |-> "focus", index |-> entry.index]),
                      !.scheduled = q.scheduled + 1 ]
      [] entry.k = "dispatch" ->
           [ q EXCEPT !.seen = Append(q.seen, [ announcer |-> q.announcer,
                                                 due |-> q.due ]) ]

RECURSIVE ApplyLog(_, _)
ApplyLog(q, log) ==
    IF log = <<>> THEN q ELSE ApplyLog(ApplyEntry(q, Head(log)), Tail(log))

\* the paint state after a handler with the given log
AfterHandler(q, log) ==
    ApplyLog([ announcer |-> q.announcer, due |-> q.due,
               scheduled |-> 0, seen |-> <<>> ], log)

\* one callback of the animation-frame queue
RunCallback(q, cb) ==
    IF cb.k = "announce"
      THEN [ q EXCEPT !.announcer = Some([ q.announcer[1] EXCEPT !.text = Some(cb.index) ]) ]
      ELSE q

RECURSIVE RunCallbacks(_, _)
RunCallbacks(q, cbs) ==
    IF cbs = <<>> THEN q ELSE RunCallbacks(RunCallback(q, Head(cbs)), Tail(cbs))

\* an animation frame: every callback that is due runs, in order
RunFrame(q) ==
    RunCallbacks([ announcer |-> q.announcer, due |-> <<>> ], q.due)

\* An element step whose deferred callbacks have run before the next step
\* (an animation frame passes between two operations)
Painted(A) ==
    /\ A
    /\ \E q \in { AfterHandler(paint, el'.log) } : paint' = RunFrame(q)

\* what render() puts in the shadow root
Layout(mode) == IF mode = "progress" THEN "progress" ELSE "steps"

\* constructor, for the given choices of the number of [data-step] children
ElInitWith(totals) ==
    /\ sys = "element"
    /\ nSteps \in totals
    /\ current_ = 0
    /\ attrCurrent = None
    /\ attrMode = None
    /\ attrAllowNavigation = None
    /\ mode_ = "steps"
    /\ allowNavigation_ = FALSE
    /\ connected = FALSE
    /\ layout = "none"
    /\ dom = NoDom
    /\ paint = NoPaint
    /\ propCurrent = None
    /\ el = ElEv("constructor", <<>>, NoFx(NoDom))
    \* no hook takes part in an element session
    /\ impl = "tsx"
    /\ totalSteps = 0
    /\ initialStep = 0
    /\ validator = "none"
    /\ currentStep = 0
    /\ stepData = EmptyMap
    /\ errors = EmptyMap
    /\ view = HookRender(0, EmptyMap, EmptyMap)
    /\ pending = <<>>
    /\ mounted = FALSE
    /\ ev = Quiet("none", <<>>, "void")

ElInit == ElInitWith(0 .. MaxElSteps)

ElFrame == UNCHANGED <<sys, impl, hookVars, nSteps, propCurrent>>

\* connectedCallback()
connectedCallback ==
    /\ sys = "element"
    /\ ~connected
    /\ connected' = TRUE
    /\ layout' = Layout(mode_)
    /\ LET rendered == Render_(NoFx(dom), mode_, current_, allowNavigation_)
           fx == ShowStep(Did(rendered, "create", 0), current_, None, current_)
       IN  /\ dom' = fx.dom
           /\ el' = ElEv("connectedCallback", <<>>, fx)
    /\ UNCHANGED <<current_, attrCurrent, attrMode, attrAllowNavigation, mode_,
                   allowNavigation_>>
    /\ ElFrame

\* disconnectedCallback()
disconnectedCallback ==
    /\ sys = "element"
    /\ connected
    /\ connected' = FALSE
    /\ el' = ElEv("disconnectedCallback", <<>>, NoFx(dom))
    /\ UNCHANGED <<current_, attrCurrent, attrMode, attrAllowNavigation, mode_,
                   allowNavigation_, layout, dom>>
    /\ ElFrame

\* (variant: no early return)
SameValue_never(oldValue, newValue) == FALSE

\* if (oldValue === newValue) return, line 264
SameValue(oldValue, newValue) == oldValue = newValue

\* attributeChangedCallback('current', old, new) after this._current = cur:
\* _showStep runs when the shadow root holds the step list
CurrentAttrEvents(fx, cur) ==
    IF layout = "steps" THEN ShowStep(fx, cur, None, cur) ELSE fx

\* setAttribute('current', v) / removeAttribute('current') by the host, and
\* the attributeChangedCallback it triggers
setAttrCurrent(v) ==
    /\ sys = "element"
    /\ attrCurrent' = v
    /\ IF SameValue(attrCurrent, v)
         THEN /\ el' = ElEv("setAttribute.current", v, NoFx(dom))
              /\ UNCHANGED <<current_, dom>>
         ELSE LET fx == CurrentAttrEvents(NoFx(dom), ParseCurrent(v))
              IN  /\ current_' = ParseCurrent(v)
                  /\ dom' = fx.dom
                  /\ el' = ElEv("setAttribute.current", v, fx)
    /\ UNCHANGED <<attrMode, attrAllowNavigation, mode_, allowNavigation_,
                   connected, layout>>
    /\ ElFrame

\* setAttribute('mode', v) / removeAttribute('mode')
setAttrMode(v) ==
    /\ sys = "element"
    /\ attrMode' = v
    /\ IF SameValue(attrMode, v)
         THEN /\ el' = ElEv("setAttribute.mode", v, NoFx(dom))
              /\ UNCHANGED <<mode_, layout, dom>>
         ELSE /\ mode_' = (IF v = Some("progress") THEN "progress" ELSE "steps")
              /\ layout' = (IF connected THEN Layout(mode_') ELSE layout)
              /\ LET fx == IF connected
                             THEN Render_(NoFx(dom), mode_', current_, allowNavigation_)
                             ELSE NoFx(dom)
                 IN  /\ dom' = fx.dom
                     /\ el' = ElEv("setAttribute.mode", v, fx)
    /\ UNCHANGED <<current_, attrCurrent, attrAllowNavigation, allowNavigation_,
                   connected>>
    /\ ElFrame

\* setAttribute('allow-navigation', v) / removeAttribute('allow-navigation')
setAttrAllowNavigation(v) ==
    /\ sys = "element"
    /\ attrAllowNavigation' = v
    /\ IF SameValue(attrAllowNavigation, v)
         THEN /\ el' = ElEv("setAttribute.allow-navigation", v, NoFx(dom))
              /\ UNCHANGED <<allowNavigation_, layout, dom>>
         ELSE /\ allowNavigation_' = (v # None /\ v # Some("false"))
              /\ layout' = (IF connected THEN Layout(mode_) ELSE layout)
              /\ LET fx == IF connected
                             THEN Render_(NoFx(dom), mode_, current_, allowNavigation_')
                             ELSE NoFx(dom)
                 IN  /\ dom' = fx.dom
                     /\ el' = ElEv("setAttribute.allow-navigation", v, fx)
    /\ UNCHANGED <<current_, attrCurrent, attrMode, mode_, connected>>
    /\ ElFrame

\* Math.max(0, Math.min(value, this.totalSteps - 1))
Clamp(value, total) == Max(0, Min(value, total - 1))

\* set currentStep(value), called as part of the operation `op`
setCurrentStepTo(value, op, arg) ==
    LET step == Clamp(value, nSteps)
        oldStep == current_
        newAttr == Some(IntStr(step))
        \* setAttribute runs attributeChangedCallback before it returns
        reacts == ~SameValue(attrCurrent, newAttr)
        cur == IF reacts THEN ParseCurrent(newAttr) ELSE step
        fx == ShowStep(IF reacts THEN CurrentAttrEvents(NoFx(dom), cur) ELSE NoFx(dom),
                       step, Some(oldStep), cur)
    IN  IF step # current_
          THEN /\ current_' = cur
               /\ attrCurrent' = newAttr
               /\ dom' = fx.dom
               /\ el' = ElEv(op, arg, fx)
          ELSE /\ el' = ElEv(op, arg, NoFx(dom))
               /\ UNCHANGED <<current_, attrCurrent, dom>>

ElNavFrame ==
    /\ UNCHANGED <<attrMode, attrAllowNavigation, mode_, allowNavigation_,
                   connected, layout>>
    /\ ElFrame

\* element.currentStep = value
set_currentStep(value) ==
    /\ sys = "element"
    /\ setCurrentStepTo(value, "set currentStep", <<value>>)
    /\ ElNavFrame

\* next(), called as part of the operation `op`
nextAs(op) ==
    IF current_ < nSteps - 1
      THEN setCurrentStepTo(current_ + 1, op, <<>>)
      ELSE /\ el' = ElEv(op, <<>>, NoFx(dom))
           /\ UNCHANGED <<current_, attrCurrent, dom>>

\* previous(), called as part of the operation `op`
previousAs(op) ==
    IF current_ > 0
      THEN setCurrentStepTo(current_ - 1, op, <<>>)
      ELSE /\ el' = ElEv(op, <<>>, NoFx(dom))
           /\ UNCHANGED <<current_, attrCurrent, dom>>

\* element.next()
el_next ==
    /\ sys = "element"
    /\ nextAs("next")
    /\ ElNavFrame

\* element.previous()
el_previous ==
    /\ sys = "element"
    /\ previousAs("previous")
    /\ ElNavFrame

\* element.goTo(index)
el_goTo(index) ==
    /\ sys = "element"
    /\ setCurrentStepTo(index, "goTo", <<index>>)
    /\ ElNavFrame

\* (variant: >= in place of ===)
OnLastStep_orBeyond(cur, total) == cur >= total - 1

\* this._current === this.totalSteps - 1, line 559
OnLastStep(cur, total) == cur = total - 1

\* A click on the next/complete button.  The click listener is attached to
\* the shadow root between connectedCallback and disconnectedCallback, and
\* the button is in the shadow root from the first render on.
clickNext ==
    /\ sys = "element"
    /\ connected
    /\ IF OnLastStep(current_, nSteps)
         THEN /\ el' = ElEv("click.next", <<>>, Dispatch(NoFx(dom), CompleteEvent(current_)))
              /\ UNCHANGED <<current_, attrCurrent, dom>>
         ELSE nextAs("click.next")
    /\ ElNavFrame

\* A click on the previous button; a disabled button receives no click.
clickPrevious ==
    /\ sys = "element"
    /\ connected
    /\ dom.controls # None
    /\ ~dom.controls[1].prevDisabled
    /\ previousAs("click.previous")
    /\ ElNavFrame

\* A click (or Enter / Space, which clicks) on the marker of step i; the
\* handler acts on markers that carry data-interactive only.
clickMarker(i) ==
    /\ sys = "element"
    /\ connected
    /\ dom.markers # None
    /\ i \in 0 .. (nSteps - 1)
    /\ IF i \in dom.interactive
         THEN setCurrentStepTo(i, "click.marker", <<i>>)
         ELSE /\ el' = ElEv("click.marker", <<i>>, NoFx(dom))
              /\ UNCHANGED <<current_, attrCurrent, dom>>
    /\ ElNavFrame

ElConnect == Painted(connectedCallback)
ElDisconnect == Painted(disconnectedCallback)
ElSetAttrCurrent == \E v \in AttrCurrentValues : Painted(setAttrCurrent(v))
ElSetAttrMode == \E v \in AttrModeValues : Painted(setAttrMode(v))
ElSetAttrAllowNavigation == \E v \in AttrAllowNavigationValues : Painted(setAttrAllowNavigation(v))
ElSetCurrentStep == \E i \in ElStepArgs : Painted(set_currentStep(i))
ElNext == Painted(el_next)
ElPrevious == Painted(el_previous)
ElGoTo == \E i \in ElStepArgs : Painted(el_goTo(i))
ElClickNext == Painted(clickNext)
ElClickPrevious == Painted(clickPrevious)
ElClickMarker == \E i \in 0 .. (MaxElSteps - 1) : Painted(clickMarker(i))

ElStep ==
    \/ ElConnect
    \/ ElDisconnect
    \/ ElSetAttrCurrent
    \/ ElSetAttrMode
    \/ ElSetAttrAllowNavigation
    \/ ElSetCurrentStep
    \/ ElNext
    \/ ElPrevious
    \/ ElGoTo
    \/ ElClickNext
    \/ ElClickPrevious
    \/ ElClickMarker

ElSpec == ElInit /\ [][ElStep]_vars

----------------------------------------------------------------------------
(* The React wrapper: AccessibleStepper  (react.tsx 238-300)               *)
(* React owns the element's attributes: it writes `current`, `mode` and     *)
(* `allow-navigation` from the props when it creates the element and, on a  *)
(* later render, the attribute of each prop whose value changed.            *)

WrapperFrame == UNCHANGED <<sys, impl, hookVars, nSteps>>

\* values of the `current` prop
WrapperCurrentValues == ElStepArgs

\* First render and commit: createElement, the three attributes (each runs
\* attributeChangedCallback on the element, which is not connected yet),
\* the children, then the insertion into the document (connectedCallback).
\* The listeners of the wrapper's second effect are attached afterwards.
wrapperMount(cur, mode, allow) ==
    /\ sys = "element"
    /\ propCurrent = None
    /\ el.op = "constructor"
    /\ propCurrent' = Some(cur)
    /\ attrCurrent' = Some(IntStr(cur))
    /\ current_' = ParseCurrent(attrCurrent')
    /\ attrMode' = Some(mode)
    /\ mode_' = (IF mode = "progress" THEN "progress" ELSE "steps")
    /\ attrAllowNavigation' = (IF allow THEN Some("true") ELSE None)
    /\ allowNavigation_' = allow
    /\ connected' = TRUE
    /\ layout' = Layout(mode_')
    /\ LET rendered == Did(Render_(NoFx(dom), mode_', current_', allow), "create", 0)
           shown == [ rendered EXCEPT
                        !.dom = showStep(rendered.dom, current_', mode_', current_') ]
           fx == Dispatch(Did(shown, "announce", current_'),
                          StepChange(current_', None, current_'))
       IN  /\ dom' = fx.dom
           /\ el' = ElEv("wrapper.mount", <<cur>>, fx)
    /\ WrapperFrame

\* el.currentStep !== current, line 260
PushNeeded(elCurrentStep, cur) == elCurrentStep # cur

\* A render with another value of the `current` prop: React writes the
\* attribute (attributeChangedCallback), then the effect of lines 258-263
\* runs.  String(cur) parses back to cur, so after an attribute change the
\* effect finds el.currentStep === current.
wrapperSetCurrent(cur) ==
    /\ sys = "element"
    /\ propCurrent # None
    /\ propCurrent # Some(cur)
    /\ propCurrent' = Some(cur)
    /\ LET newAttr == Some(IntStr(cur))
       IN  IF ~SameValue(attrCurrent, newAttr)
             THEN LET fx == CurrentAttrEvents(NoFx(dom), ParseCurrent(newAttr))
                  IN  /\ attrCurrent' = newAttr
                      /\ current_' = ParseCurrent(newAttr)
                      /\ dom' = fx.dom
                      /\ el' = ElEv("wrapper.current", <<cur>>, fx)
             ELSE IF PushNeeded(current_, cur)
             THEN setCurrentStepTo(cur, "wrapper.current", <<cur>>)
             ELSE /\ el' = ElEv("wrapper.current", <<cur>>, NoFx(dom))
                  /\ UNCHANGED <<current_, attrCurrent, dom>>
    /\ UNCHANGED <<attrMode, attrAllowNavigation, mode_, allowNavigation_,
                   connected, layout>>
    /\ WrapperFrame

\* The mount, a render with another `current` or `mode` prop, and the
\* element navigating by itself: the user's clicks, and calls through the
\* forwarded ref
WrapperStep ==
    \/ \E cur \in 0 .. MaxElSteps, mode \in {"steps", "progress"}, allow \in BOOLEAN :
          Painted(wrapperMount(cur, mode, allow))
    \/ \E cur \in WrapperCurrentValues : Painted(wrapperSetCurrent(cur))
    \/ \E mode \in {"steps", "progress"} :
          propCurrent # None /\ attrMode # Some(mode) /\ Painted(setAttrMode(Some(mode)))
    \/ propCurrent # None /\ Painted(clickNext)
    \/ propCurrent # None /\ Painted(clickPrevious)
    \/ \E i \in 0 .. (MaxElSteps - 1) : propCurrent # None /\ Painted(clickMarker(i))
    \/ \E i \in ElStepArgs : propCurrent # None /\ Painted(el_goTo(i))

WrapperSpec == ElInit /\ [][WrapperStep]_vars

----------------------------------------------------------------------------
(* Element sessions in which operations may follow one another before the
   next animation frame: the callbacks passed to requestAnimationFrame wait
   in paint.due until the frame runs them. *)

\* An element step whose deferred callbacks are left waiting
Deferred(A) ==
    /\ A
    /\ \E q \in { AfterHandler(paint, el'.log) } :
          /\ Len(q.due) <= MaxFrames
          /\ paint' = [ announcer |-> q.announcer, due |-> q.due ]

\* the browser runs the animation frame
animationFrame ==
    /\ sys = "element"
    /\ paint.due # <<>>
    /\ paint' = RunFrame(paint)
    /\ el' = ElEv("animationFrame", <<>>, NoFx(dom))
    /\ UNCHANGED <<current_, attrCurrent, attrMode, attrAllowNavigation, mode_,
                   allowNavigation_, connected, layout, dom>>
    /\ ElFrame

FrameSteps == 0 .. (MaxElSteps - 1)

FrameStep ==
    \/ Deferred(connectedCallback)
    \/ Deferred(disconnectedCallback)
    \/ Deferred(el_next)
    \/ Deferred(el_previous)
    \/ \E i \in FrameSteps : Deferred(el_goTo(i))
    \/ \E i \in FrameSteps : Deferred(setAttrCurrent(Some(IntStr(i))))
    \/ \E v \in AttrModeValues : Deferred(setAttrMode(v))
    \/ animationFrame

FrameSpec == ElInitWith({MaxElSteps}) /\ [][FrameStep]_vars

----------------------------------------------------------------------------
(* A session of either component *)

Init == HookInit \/ ElInit

Next == SeqNext \/ ElStep

Spec == Init /\ [][Next]_vars

----------------------------------------------------------------------------
(* Sessions that only navigate, with longer step sequences: the states in  *)
(* which the progress percentage is not a whole multiple.                  *)

ProgressArgs == -1 .. MaxProgressSteps

ProgressInit ==
    \/ HookInitWith(0 .. MaxProgressSteps, {"none"}, {None})
    \/ ElInitWith(0 .. MaxProgressSteps)

ProgressHookNext == SeqCall(next)
ProgressHookPrevious == SeqCall(previous)
ProgressHookGoTo == \E i \in ProgressArgs : SeqCall(goTo(i))
ProgressElGoTo == \E i \in ProgressArgs : Painted(el_goTo(i))
ProgressElSetCurrentStep == \E i \in ProgressArgs : Painted(set_currentStep(i))

ProgressNext ==
    \/ ProgressHookNext
    \/ ProgressHookPrevious
    \/ ProgressHookGoTo
    \/ ElConnect
    \/ ElNext
    \/ ElPrevious
    \/ ProgressElGoTo
    \/ ProgressElSetCurrentStep

ProgressSpec == ProgressInit /\ [][ProgressNext]_vars

----------------------------------------------------------------------------
(* Properties *)

InRange(i, total) == 0 <= i /\ i < total

\* p is the integer nearest to 100 * n / d (d > 0), a half rounding upward:
\* p - 1/2 <= 100 n / d < p + 1/2
IsNearestPercent(p, n, d) ==
    /\ 2 * d * p - d <= 200 * n
    /\ 200 * n < 2 * d * p + d

\* p is the progress of index cur among total steps
IsProgressOf(p, cur, total) ==
    IF total <= 1 THEN p = 100 ELSE IsNearestPercent(p, cur, total - 1)

\* C1: in a hook session with totalSteps >= 1 (started at an in-range
\* index), every reachable state has 0 <= currentStep < totalSteps, in the
\* React state and in the object the hook returns.
C1_HookIndexInRange ==
    (sys = "hook" /\ totalSteps >= 1 /\ InRange(initialStep, totalSteps))
        => (InRange(currentStep, totalSteps) /\ InRange(view.currentStep, totalSteps))

\* C2: after the hook's setCurrentStep(i), for any integer i, currentStep is
\* max(0, min(i, totalSteps - 1)) (stated for totalSteps >= 1).
C2_HookSetCurrentStepClamps ==
    (sys = "hook" /\ ev.op = "setCurrentStep" /\ totalSteps >= 1)
        => currentStep = Max(0, Min(ev.arg[1], totalSteps - 1))

\* C3: a hook created with totalSteps >= 1 starts with currentStep clamped
\* into [0, totalSteps - 1] whatever initialStep is given, and at 0 when
\* none is given.
C3_HookInitialStepClamped ==
    (sys = "hook" /\ ev.op = "mount" /\ totalSteps >= 1)
        => /\ InRange(currentStep, totalSteps)
           /\ ev.arg = None => currentStep = 0
           /\ ev.arg # None => currentStep = Max(0, Min(ev.arg[1], totalSteps - 1))

\* C4: the element's currentStep is always within [0, totalSteps) (stated
\* for an element that has steps).
C4_ElIndexInRange ==
    (sys = "element" /\ nSteps >= 1) => InRange(current_, nSteps)

\* C5: the progress the hook returns and the progress the element reports
\* (its getter, and the detail of the events it dispatches) are 100 when
\* there is at most one step, and otherwise the integer nearest to
\* currentIndex / (totalSteps - 1) * 100, computed from the present index.
C5_ProgressFormula ==
    /\ sys = "hook" =>
          /\ InRange(currentStep, totalSteps) \/ totalSteps = 0
          /\ view.currentStep = currentStep
          /\ IsProgressOf(view.progress, currentStep, totalSteps)
    /\ sys = "element" =>
          /\ InRange(current_, nSteps) \/ nSteps = 0
          /\ IsProgressOf(ElProgress(nSteps, current_), current_, nSteps)
          /\ \A k \in DOMAIN el.events :
                IsProgressOf(el.events[k].progress, current_, nSteps)

\* a half rounds upward: index 1 of 9 steps is 12.5 percent, reported as 13
C5_Witness ==
    /\ sys = "hook"
    /\ totalSteps = 9
    /\ ev.op = "goTo"
    /\ view.currentStep = 1
    /\ view.progress = 13

\* C6: progress is always an integer between 0 and 100, in the hook
\* (started at an in-range index) and in the element.
C6_ProgressWithinPercent ==
    /\ (sys = "hook" /\ (totalSteps = 0 \/ InRange(initialStep, totalSteps)))
          => (view.progress \in 0 .. 100)
    /\ sys = "element" => (ElProgress(nSteps, current_) \in 0 .. 100)

\* C7: the hook's next() called on the last step, and previous() called on
\* step 0, return false, leave currentStep, stepData and errors as they
\* were, call no validator and fire no step-change notification.
C7_HookBoundaryNoOp ==
    [][ ( \/ ev'.op = "next" /\ view.currentStep = totalSteps - 1
          \/ ev'.op = "previous" /\ view.currentStep = 0 )
        => /\ ev'.ret = "false"
           /\ currentStep' = currentStep
           /\ stepData' = stepData
           /\ errors' = errors
           /\ ev'.vcalls = <<>>
           /\ ev'.notes = <<>>
           /\ pending' = pending ]_vars

\* next() on the last step, with a validator configured, an error stored
\* and step data written
C7_Witness ==
    /\ sys = "hook"
    /\ validator = "message"
    /\ totalSteps = 2
    /\ ev.op = "next"
    /\ ev.ret = "false"
    /\ currentStep = 1
    /\ 0 \in DOMAIN errors
    /\ errors[0] = Msg
    /\ stepData # EmptyMap

\* C8: the hook's goTo(i) with i < 0 or i >= totalSteps returns false, leaves
\* currentStep, stepData and errors as they were and fires no notification.
C8_HookGoToOutOfRange ==
    [][ (ev'.op = "goTo" /\ ~InRange(ev'.arg[1], totalSteps))
        => /\ ev'.ret = "false"
           /\ currentStep' = currentStep
           /\ stepData' = stepData
           /\ errors' = errors
           /\ ev'.notes = <<>> ]_vars

\* goTo(totalSteps) rejected
C8_Witness ==
    /\ sys = "hook"
    /\ totalSteps = 2
    /\ ev.op = "goTo"
    /\ ev.arg = <<2>>
    /\ ev.ret = "false"
    /\ currentStep = 1

\* C9: the hook's goTo(i) with 0 <= i < totalSteps returns true, sets
\* currentStep to i and fires exactly one notification (i, old), old being
\* the index before the call, also when i is the index before the call.
C9_HookGoToInRange ==
    [][ (ev'.op = "goTo" /\ InRange(ev'.arg[1], totalSteps))
        => /\ ev'.ret = "true"
           /\ currentStep' = ev'.arg[1]
           /\ ev'.notes = << <<ev'.arg[1], currentStep>> >>
           /\ stepData' = stepData
           /\ errors' = errors ]_vars

\* goTo(1) called on step 1 has notified (1, 1)
C9_Witness ==
    /\ sys = "hook"
    /\ ev.op = "goTo"
    /\ ev.ret = "true"
    /\ ev.notes = << <<1, 1>> >>
    /\ currentStep = 1

\* C10: the element's goTo(i) with i outside [0, totalSteps) changes nothing
\* and dispatches no stepchange event.
C10_ElGoToOutOfRangeRejected ==
    [][ (el'.op = "goTo" /\ ~InRange(el'.arg[1], nSteps))
        => /\ current_' = current_
           /\ el'.events = <<>> ]_vars

\* C11: the hook's reset(), called in any state (also while a validation is
\* outstanding), leaves currentStep at the initial index, stepData and errors
\* empty and fires no notification; a reset() that follows a reset() changes
\* nothing the hook returns.
C11_HookReset ==
    [][ ev'.op = "reset"
        => /\ currentStep' = initialStep
           /\ stepData' = EmptyMap
           /\ errors' = EmptyMap
           /\ view'.currentStep = initialStep
           /\ view'.stepData = EmptyMap
           /\ view'.errors = EmptyMap
           /\ ev'.notes = <<>>
           /\ ev'.vcalls = <<>>
           /\ ev'.done = <<>>
           /\ pending' = pending
           /\ ev.op = "reset" => (view' = view /\ ev' = ev) ]_vars

\* reset() called away from the initial index, with data and an error stored
\* and a validation outstanding
C11_Witness ==
    /\ sys = "hook"
    /\ ev.op = "reset"
    /\ Len(pending) = 1
    /\ pending[1].op = "complete"
    /\ pending[1].step = 1
    /\ pending[1].data # EmptyMap
    /\ initialStep = 0
    /\ currentStep = 0
    /\ stepData = EmptyMap
    /\ errors = EmptyMap

\* C12: the hook's updateStepData(k, patch) leaves stepData[k] with the keys
\* it had and the keys of the patch, the patch's value for every key of the
\* patch and the earlier value for every other key (the entry is created when
\* absent); stepData of every other step, currentStep and errors are
\* unchanged, no validator is invoked and no notification fired.
C12_HookUpdateStepDataMerges ==
    [][ ev'.op = "updateStepData"
        => LET k == ev'.arg[1]
               patch == ev'.patch
               before == IF k \in DOMAIN stepData THEN stepData[k] ELSE EmptyMap
           IN  /\ DOMAIN stepData' = (DOMAIN stepData) \cup {k}
               /\ DOMAIN stepData'[k] = (DOMAIN before) \cup (DOMAIN patch)
               /\ \A key \in DOMAIN patch : stepData'[k][key] = patch[key]
               /\ \A key \in (DOMAIN before) \ (DOMAIN patch) :
                      stepData'[k][key] = before[key]
               /\ \A j \in (DOMAIN stepData) \ {k} : stepData'[j] = stepData[j]
               /\ view'.stepData = stepData'
               /\ currentStep' = currentStep
               /\ errors' = errors
               /\ pending' = pending
               /\ ev'.vcalls = <<>>
               /\ ev'.notes = <<>>
               /\ ev'.done = <<>> ]_vars

\* {a: 1} then {b: 2} written to step 1 has given {a: 1, b: 2}, with data
\* of step 0 and an error stored
C12_Witness ==
    /\ sys = "hook"
    /\ ev.op = "updateStepData"
    /\ ev.arg = <<1>>
    /\ ev.patch = [b |-> 2]
    /\ 1 \in DOMAIN stepData
    /\ stepData[1] = [a |-> 1, b |-> 2]
    /\ 0 \in DOMAIN stepData
    /\ 0 \in DOMAIN errors
    /\ errors[0] = Msg

\* a step's entry of errors holds no error: null, or no entry at all
NoError(errs, k) == Lookup(errs, k) \in { None, Some(VNull) }

\* C13: when the validator awaited by the hook's next() resolves to a message
\* string s, currentStep is unchanged, errors[currentStep] is s, next()
\* returns false and no notification is fired; when it resolves to true (also
\* on a next() that follows such a rejection) currentStep advances by exactly
\* 1, the error of the step left is cleared, (newIndex, oldIndex) is notified
\* once and next() returns true.  (Stated for a next() during whose
\* validation no other operation was called.)
C13_HookValidatorContract ==
    [][ (ev'.op = "next.settle" /\ ev.op = "next")
        => /\ (ev'.result # Some(VTrue) /\ ev'.result # Some(VFalse))
                => /\ currentStep' = currentStep
                   /\ currentStep \in DOMAIN errors'
                   /\ Some(errors'[currentStep]) = ev'.result
                   /\ view'.errors = errors'
                   /\ ev'.ret = "false"
                   /\ ev'.notes = <<>>
           /\ ev'.result = Some(VTrue)
                => /\ currentStep' = currentStep + 1
                   /\ NoError(errors', currentStep)
                   /\ view'.currentStep = currentStep + 1
                   /\ ev'.notes = << <<currentStep + 1, currentStep>> >>
                   /\ ev'.ret = "true" ]_vars

\* a next() accepted on step 0: the step's entry of errors is null
C13_Witness ==
    /\ sys = "hook"
    /\ validator = "message"
    /\ ev.op = "next.settle"
    /\ ev.result = Some(VTrue)
    /\ ev.notes = << <<1, 0>> >>
    /\ currentStep = 1
    /\ 0 \in DOMAIN errors
    /\ errors[0] = VNull
    /\ stepData # EmptyMap

\* C14: when the validator awaited by the hook's next() resolves to boolean
\* false, currentStep does not advance, next() returns false, no notification
\* is fired, and the step's entry of errors holds no value (null or absent).
C14_HookBooleanRejection ==
    [][ ( /\ ev'.op = "next.settle"
          /\ ev.op = "next"
          /\ ev'.result = Some(VFalse)
          /\ InRange(currentStep, totalSteps) )
        => /\ currentStep' = currentStep
           /\ ev'.ret = "false"
           /\ ev'.notes = <<>>
           /\ NoError(errors', currentStep) ]_vars

\* C15: the hook's previous() and goTo(i) invoke no validator and await
\* nothing; whatever the validator and the errors stored, previous() from an
\* index > 0 returns true and moves one step back, and goTo(i) with i in
\* range returns true and moves to i.
C15_HookBackwardUnvalidated ==
    [][ /\ ev'.op \in {"previous", "goTo"}
            => /\ ev'.vcalls = <<>>
               /\ ev'.ret # "pending"
               /\ pending' = pending
               /\ errors' = errors
        /\ (ev'.op = "previous" /\ currentStep > 0)
            => /\ ev'.ret = "true"
               /\ currentStep' = currentStep - 1
        /\ (ev'.op = "goTo" /\ InRange(ev'.arg[1], totalSteps))
            => /\ ev'.ret = "true"
               /\ currentStep' = ev'.arg[1] ]_vars

\* previous() from step 1, whose validation has just been rejected
C15_Witness ==
    /\ sys = "hook"
    /\ validator = "message"
    /\ ev.op = "previous"
    /\ ev.ret = "true"
    /\ currentStep = 0
    /\ 1 \in DOMAIN errors
    /\ errors[1] = Msg

EventsOfType(events, t) == { k \in DOMAIN events : events[k].type = t }

\* C17: the element dispatches a complete event iff the next/complete
\* control is activated while currentStep = totalSteps - 1; that activation
\* dispatches exactly that one event, carrying {current}, and leaves
\* currentStep unchanged; activating the control on any other step does what
\* next() does; next(), previous(), goTo() and currentStep assignment
\* dispatch no complete event.
C17_ElCompleteEvent ==
    [][ LET completes == EventsOfType(el'.events, "complete")
            onLast == (el'.op = "click.next" /\ current_ = nSteps - 1)
        IN  /\ (completes # {}) <=> onLast
            /\ onLast
                 => /\ el'.events = << [type |-> "complete", current |-> current_] >>
                    /\ current_' = current_
                    /\ dom' = dom
            /\ (el'.op = "click.next" /\ ~onLast)
                 => current_' = (IF current_ < nSteps - 1 THEN current_ + 1 ELSE current_)
      ]_vars

\* the control activated on the last of two steps, after a next()
C17_Witness ==
    /\ sys = "element"
    /\ nSteps = 2
    /\ connected
    /\ el.op = "click.next"
    /\ el.events = << [type |-> "complete", current |-> 1] >>
    /\ current_ = 1
    /\ dom.controls = Some([prevDisabled |-> FALSE, nextLabel |-> "Complete"])

\* C18: every next(), previous(), goTo(i) or currentStep assignment of the
\* element that changes the index from old to new dispatches exactly one
\* stepchange event, with detail {current: new, previous: old, total, label,
\* progress}, whatever the layout.  (Stated for an index that is in range.)
C18_ElOneStepChangePerTransition ==
    [][ ( /\ el'.op \in {"next", "previous", "goTo", "set currentStep"}
          /\ InRange(current_, nSteps)
          /\ current_' # current_ )
        => el'.events =
             << [ type |-> "stepchange", current |-> current_',
                  previous |-> Some(current_), total |-> nSteps,
                  label |-> LabelAt(current_'),
                  progress |-> ElProgress(nSteps, current_') ] >> ]_vars

\* C19: the element dispatches a stepchange event only in a step that
\* changes its currentStep: none when it is connected, when next() is called
\* on the last step, previous() on the first, or currentStep is assigned a
\* value that clamps to the current index.  (Stated for an element that has
\* steps.)
C19_ElStepChangeOnlyOnChange ==
    [][ (nSteps >= 1 /\ EventsOfType(el'.events, "stepchange") # {})
        => current_' # current_ ]_vars

\* C20: whenever the element dispatches a stepchange event, the rendered
\* state at the dispatch is that of detail.current: the only step shown is
\* the one at that index, the markers (when there is a step list) carry the
\* statuses of that index, the progress bar (when there is one) carries the
\* progress value and the text of that index, and the controls (when
\* rendered) are those of that index.
C20_ElRenderedBeforeStepChange ==
    sys = "element" =>
      \A k \in EventsOfType(el.events, "stepchange") :
        LET d == el.seen[k]
            c == el.events[k].current
        IN  /\ d.shown = Some(c)
            /\ d.markers # None => d.markers = Some(Some(c))
            /\ d.bar # None
                 => /\ d.bar[1].index = c
                    /\ IsProgressOf(d.bar[1].now, c, nSteps)
            /\ d.controls # None
                 => /\ d.controls[1].prevDisabled = (c = 0)
                    /\ (d.controls[1].nextLabel = "Complete") = (c = nSteps - 1)

\* C21: useStepper() called where no StepperProvider is active throws and
\* returns nothing; called inside a provider it returns the provider's
\* stepper: the object the provider's hook returned on its last render.
C21_UseStepperOutsideProviderThrows ==
    (sys = "hook" /\ ev.op = "useStepper") =>
        /\ ev.arg = None => (ev.ret = "throw" /\ ev.result = None)
        /\ ev.arg # None
             => /\ ev.ret = "context"
                /\ ev.result = ev.arg
                /\ ev.result = Some(view)

\* useStepper() has thrown outside of a provider whose stepper has moved
C21_Witness ==
    /\ sys = "hook"
    /\ ev.op = "useStepper"
    /\ ev.arg = None
    /\ ev.ret = "throw"
    /\ currentStep = 1
    /\ stepData # EmptyMap

\* C22: when the React wrapper renders with another value of the `current`
\* prop, the element's index becomes that value if the two differ; if the
\* element's index already equals the prop (the host echoing back an index
\* the element reached by itself), nothing is written to the element and no
\* stepchange event is dispatched.
C22_WrapperPushesIffDiffers ==
    [][ el'.op = "wrapper.current"
        => LET cur == el'.arg[1]
           IN  /\ propCurrent' = Some(cur)
               /\ current_ # cur => current_' = cur
               /\ current_ = cur
                    => /\ current_' = current_
                       /\ attrCurrent' = attrCurrent
                       /\ dom' = dom
                       /\ el'.events = <<>> ]_vars

\* the host has echoed index 1, which the element reached by goTo(1) while
\* the prop was 0: nothing dispatched
C22_Witness ==
    /\ sys = "element"
    /\ nSteps = 2
    /\ layout = "steps"
    /\ el.op = "wrapper.current"
    /\ el.arg = <<1>>
    /\ el.events = <<>>
    /\ current_ = 1
    /\ propCurrent = Some(1)
    /\ dom.markers = Some(Some(1))

\* C23 (as stated): in every reachable hook state, for any totalSteps >= 0,
\* isFirst is (currentStep = 0), isLast is (currentStep = totalSteps - 1),
\* canGoNext is the negation of isLast and canGoPrev the negation of isFirst.
C23_HookFlagsAsStated ==
    sys = "hook" =>
        /\ view.isFirst = (view.currentStep = 0)
        /\ view.isLast = (view.currentStep = totalSteps - 1)
        /\ view.canGoNext = ~view.isLast
        /\ view.canGoPrev = ~view.isFirst

\* C23 (amended): in every reachable hook state, for any totalSteps >= 0,
\* isFirst is (currentStep = 0), isLast is (currentStep = totalSteps - 1),
\* canGoNext is (currentStep < totalSteps - 1) and canGoPrev is
\* (currentStep > 0); canGoNext is the negation of isLast, and canGoPrev of
\* isFirst, exactly when 0 <= currentStep < totalSteps.
C23_HookFlags ==
    sys = "hook" =>
        /\ view.currentStep = currentStep
        /\ view.isFirst = (currentStep = 0)
        /\ view.isLast = (currentStep = totalSteps - 1)
        /\ view.canGoNext = (currentStep < totalSteps - 1)
        /\ view.canGoPrev = (currentStep > 0)
        /\ InRange(currentStep, totalSteps)
             => /\ view.canGoNext = ~view.isLast
                /\ view.canGoPrev = ~view.isFirst
        /\ (totalSteps = 0 /\ currentStep = 0)
             => (~view.canGoNext /\ ~view.isLast)

\* a hook of zero steps after next() returned false: neither last nor able
\* to go on
C23_Witness ==
    /\ sys = "hook"
    /\ totalSteps = 0
    /\ currentStep = 0
    /\ ev.op = "next"
    /\ ev.ret = "false"
    /\ ~view.canGoNext
    /\ ~view.isLast
    /\ view.isFirst

\* C24: while the element is connected in steps layout (with its index in
\* range), whatever navigation and attribute changes came before, marker i is
\* marked completed iff i < currentStep and current iff i = currentStep, and
\* exactly one marker carries aria-current.
C24_ElMarkersFollowIndex ==
    ( /\ sys = "element"
      /\ connected
      /\ layout = "steps"
      /\ InRange(current_, nSteps) )
    => /\ \A i \in 0 .. (nSteps - 1) :
             /\ MarkerCompleted(dom, i) = (i < current_)
             /\ MarkerCurrent(dom, i) = (i = current_)
       /\ Cardinality({ i \in 0 .. (nSteps - 1) : MarkerCurrent(dom, i) }) = 1

\* C25: while the element is connected in steps layout with allow-navigation
\* enabled (and its index in range), marker i is interactive iff
\* i < currentStep: a completed marker can be activated to go back, and no
\* marker at or after currentStep can be activated.
C25_ElInteractiveMarkers ==
    ( /\ sys = "element"
      /\ connected
      /\ layout = "steps"
      /\ allowNavigation_
      /\ InRange(current_, nSteps) )
    => dom.interactive = { i \in 0 .. (nSteps - 1) : i < current_ }

\* C26: while the element is connected (with its index in range), in either
\* layout and whatever navigation and attribute changes came before, the
\* previous control is disabled iff currentStep = 0 and the next control
\* reads 'Complete' iff currentStep = totalSteps - 1.
C26_ElControlsFollowIndex ==
    ( /\ sys = "element"
      /\ connected
      /\ InRange(current_, nSteps) )
    => /\ dom.controls # None
       /\ dom.controls[1].prevDisabled = (current_ = 0)
       /\ (dom.controls[1].nextLabel = "Complete") = (current_ = nSteps - 1)

\* C27: when a transition is accepted, the announcement text has been
\* committed to the live region and the focus has been moved by the time the
\* stepchange event is dispatched: at the dispatch the live region holds the
\* message of the new step and no callback is still waiting.
C27_ElAnnouncedBeforeStepChange ==
    [][ ( /\ sys = "element"
          /\ connected
          /\ InRange(current_', nSteps)
          /\ current_' # current_ )
        => LET q == AfterHandler(paint, el'.log)
           IN  \A i \in 1 .. Len(el'.events) :
                 ( el'.events[i].type = "stepchange" )
                 => /\ q.seen[i].due = <<>>
                    /\ q.seen[i].announcer # None
                    /\ q.seen[i].announcer[1].text = Some(el'.events[i].current)
      ]_vars

\* C28: once every deferred callback has run, the live region of a connected
\* element holds the message 'Step {currentStep + 1} of {totalSteps}: {label}'
\* of the current index, whatever transitions came before.
C28_ElAnnouncementFollowsIndex ==
    ( /\ sys = "element"
      /\ connected
      /\ InRange(current_, nSteps)
      /\ paint.due = <<>> )
    => /\ paint.announcer # None
       /\ paint.announcer[1].text # None
       /\ AnnounceText(paint.announcer[1].text[1]) = AnnounceText(current_)

\* C29: an operation that changes the index of a connected element passes
\* exactly one callback to requestAnimationFrame.
C29_ElOneCallbackPerTransition ==
    [][ ( /\ sys = "element"
          /\ connected
          /\ InRange(current_, nSteps)
          /\ InRange(current_', nSteps)
          /\ current_' # current_ )
        => AfterHandler(paint, el'.log).scheduled = 1
      ]_vars

\* C30: while the element is connected, its live region is in the shadow
\* root, and it is the node this._announcer that announcements are written
\* to.
C30_ElOneLiveRegion ==
    ( sys = "element" /\ connected /\ nSteps >= 1 )
    => /\ paint.announcer # None
       /\ paint.announcer[1].attached

\* C31: whenever a successful operation moves currentStep forward past step
\* k (an accepted next() from k, or goTo(j) with j > k from k), errors[k]
\* holds no error afterwards.
C31_HookErrorClearedWhenPassed ==
    [][ ( /\ sys = "hook"
          /\ InRange(currentStep, totalSteps)
          /\ ev'.op \in {"next", "next.settle", "goTo"}
          /\ ev'.op = "next.settle" => ev.op = "next"
          /\ ev'.ret = "true"
          /\ currentStep' > currentStep )
        => NoError(errors', currentStep)
      ]_vars

\* every entry of d and every key of it is in e
KeepsEntries(d, e) ==
    \A k \in DOMAIN d :
        /\ k \in DOMAIN e
        /\ DOMAIN d[k] \subseteq DOMAIN e[k]

\* C32 as stated: once updateStepData has created stepData[k], that entry
\* and every key merged into it are present in every later state, whatever
\* operation follows, reset() included.
C32_HookStepDataKeptAlways ==
    [][ sys = "hook" => KeepsEntries(stepData, stepData') ]_vars

\* C32: once updateStepData has created stepData[k], that entry and every key
\* merged into it stay until the next reset(): next, previous, goTo,
\* complete, setCurrentStep and further updateStepData calls keep them, and
\* reset() empties stepData.
C32_HookStepDataKeptUntilReset ==
    [][ sys = "hook"
        => /\ ev'.op # "reset" => KeepsEntries(stepData, stepData')
           /\ ev'.op = "reset" => stepData' = EmptyMap
      ]_vars

\* a second patch has been merged into an entry that held another key
C32_Witness ==
    /\ sys = "hook"
    /\ ev.op = "updateStepData"
    /\ ev.arg = <<0>>
    /\ ev.patch = [k \in {"b"} |-> 2]
    /\ 0 \in DOMAIN stepData
    /\ DOMAIN stepData[0] = {"a", "b"}

\* C33: when the component owning the hook is unmounted while a validation
\* of next() or complete() is outstanding, the later settlement changes
\* neither currentStep nor errors and calls neither onStepChange nor
\* onComplete.
C33_HookSettleAfterTeardown ==
    [][ ( /\ sys = "hook"
          /\ ~mounted
          /\ InRange(currentStep, totalSteps)
          /\ ev'.op \in {"next.settle", "complete.settle"} )
        => /\ currentStep' = currentStep
           /\ errors' = errors
           /\ ev'.notes = <<>>
           /\ ev'.done = <<>>
      ]_vars

\* C34: every onStepChange(newIndex, oldIndex) made by next, previous or goTo
\* carries as oldIndex the currentStep of the state just before the
\* operation's update and as newIndex the value just after it, also when the
\* operation is called from a render snapshot that is older than the state.
C34_HookNotificationMatchesState ==
    [][ ( /\ sys = "hook"
          /\ mounted
          /\ ev'.notes # <<>> )
        => ev'.notes = << <<currentStep', currentStep>> >>
      ]_vars

\* C35: every call of the validator made by next() receives (currentIndex,
\* stepData[currentIndex]) with the stepData of the state at that moment:
\* every updateStepData issued before the call is reflected, also one issued
\* just before next() from the same render snapshot.
C35_HookValidatorSeesData ==
    [][ ( /\ sys = "hook"
          /\ mounted
          /\ InRange(currentStep, totalSteps)
          /\ view.currentStep = currentStep
          /\ ev'.vcalls # <<>> )
        => ev'.vcalls = << [ step |-> currentStep,
                             data |-> Lookup(stepData, currentStep) ] >>
      ]_vars

\* C38: for totalSteps >= 1 and an in-range initialStep, 0 <= currentStep <
\* totalSteps in every state reached by next, previous, goTo, reset and
\* updateStepData, under every interleaving of the calls with the
\* settlements of the validations of next(), several of them outstanding at
\* once, and whatever the age of the render snapshot a call is made from.
C38_HookIndexInRangeAsync ==
    ( /\ sys = "hook"
      /\ totalSteps >= 1
      /\ InRange(initialStep, totalSteps) )
    => InRange(currentStep, totalSteps)

\* a next() has been accepted while another validation started at the same
\* index is still outstanding
C38_Witness ==
    /\ sys = "hook"
    /\ InRange(initialStep, totalSteps)
    /\ ev.op = "next.settle"
    /\ ev.ret = "true"
    /\ currentStep = totalSteps - 1
    /\ pending # <<>>
    /\ pending[1].step = currentStep - 1

\* C39: when the validator of a next() called at index c accepts, currentStep
\* is set to c + 1, errors[c] is cleared and (c + 1, c) is notified, whatever
\* previous(), goTo() or reset() did to currentStep while the validation was
\* outstanding; the second of two accepted next() calls started at the same
\* index leaves the index at c + 1.
C39_HookLateAcceptOverwrites ==
    [][ ( /\ sys = "hook"
          /\ mounted
          /\ ev'.op = "next.settle"
          /\ ev'.ret = "true" )
        => \E i \in DOMAIN pending :
              LET c == pending[i].step
              IN  /\ pending[i].op = "next"
                  /\ pending' = RemoveAt(pending, i)
                  /\ currentStep' = c + 1
                  /\ Lookup(errors', c) = Some(VNull)
                  /\ ev'.notes = << <<c + 1, c>> >>
      ]_vars

\* the second of two next() calls started at index 0 has been accepted after
\* a render that already showed index 1
C39_Witness ==
    /\ sys = "hook"
    /\ ev.op = "next.settle"
    /\ ev.ret = "true"
    /\ ev.notes = << <<1, 0>> >>
    /\ view.currentStep = 1
    /\ currentStep = 1

\* C36: complete() follows the validator protocol of next(): when the
\* validator of a complete() accepts, the error of the current step is
\* cleared (also the one a rejected complete() left there), and onComplete is
\* called only when the current step is the final one.
C36_HookCompleteClearsError ==
    [][ ( /\ sys = "hook"
          /\ totalSteps >= 1
          /\ InRange(currentStep, totalSteps)
          /\ ev'.op = "complete.settle"
          /\ ev.op = "complete"
          /\ ev'.ret = "true" )
        => /\ NoError(errors', currentStep)
           /\ ev'.done # <<>> => currentStep = totalSteps - 1
      ]_vars

\* C37: while the element is connected in progress layout, after every
\* change of the current index (next(), previous(), goTo(), currentStep
\* assignment, a change of the `current` attribute) the progress bar's value
\* is progress, its texts are those of the current step, and the step shown
\* is the one at currentStep.
C37_ElProgressLayoutFollowsIndex ==
    [][ ( /\ sys = "element"
          /\ connected
          /\ layout = "progress"
          /\ layout' = "progress"
          /\ InRange(current_', nSteps)
          /\ current_' # current_ )
        => /\ dom'.bar # None
           /\ IsProgressOf(dom'.bar[1].now, current_', nSteps)
           /\ dom'.bar[1].index = current_'
           /\ dom'.shown = Some(current_')
      ]_vars

\* C40: the hook of react.jsx and the hook of react.tsx are observationally
\* equivalent: whatever a complete() of react.jsx does in a state (what it
\* returns, the callbacks it calls, the state it leaves, what is still
\* awaited), complete() of react.tsx does in the same state for the same
\* behaviour of onComplete; the other operations have the same text.
C40_HookImplementationsEquivalent ==
    [][ ( /\ sys = "hook"
          /\ impl = "jsx"
          /\ ev'.op = "complete" )
        => completeFinish("tsx", ev'.result[1])
      ]_vars

============================================================================
